---- MODULE Spec2Model ----
(***************************************************************************)
(* Model of SocialModel.__init__ (src/src/model.py): the unrolled decoding *)
(* loop over the frames of a trajectory, the threading of the recurrent    *)
(* state, and the aggregation of the per-step predictions into the         *)
(* normalised, regularised training loss.                                  *)
(*                                                                         *)
(* Coordinates are pairs <<x, y>> of integers.  A tensor indexed by slot   *)
(* is a function on 0..max_num_ped-1.  Tensors whose values are produced   *)
(* by layers with trainable weights (embeddings, LSTM outputs) are terms   *)
(* [op |-> ..., ...] naming the operation and its operands, as in the      *)
(* dataflow graph the constructor builds.  Scalars of the loss are exact   *)
(* rationals extended with the non-finite floating-point values.           *)
(***************************************************************************)
EXTENDS Integers, Sequences, FiniteSets, TLC

\* Bounds of the model.
MaxNumPed == 2
MaxTraj == 4

\* Program constants.
output_size == 5
lstm_size == 128

VARIABLES
    \* constructor arguments
    max_num_ped, trajectory_size, prediction_time, l2_norm,
    helper, position_estimate, loss_function, pooling_module,
    \* dataset.tensors[0..4]
    input_data, peds_mask, num_peds_frame, all_peds, all_peds_mask,
    \* tf.trainable_variables() and the step counter of the optimizer
    tvars, global_step,
    \* locals and attributes of the constructor
    pc, frame, new_coordinates, new_coordinates_processed,
    cell_output, cell_states, coordinates_preprocessed, layered_output,
    decoder, loss_input, loss,
    \* the calls made so far, in order
    trace,
    \* a second evaluation of the loss on predictions that differ from
    \* new_coordinates in the padding slots only
    other_coordinates, other_loss

config == <<max_num_ped, trajectory_size, prediction_time, l2_norm,
            helper, position_estimate, loss_function, pooling_module>>
inputs == <<input_data, peds_mask, num_peds_frame, all_peds, all_peds_mask>>
params == <<tvars, global_step>>
locals == <<pc, frame, new_coordinates, new_coordinates_processed,
            cell_output, cell_states, coordinates_preprocessed,
            layered_output, decoder, loss_input, loss>>
vars == <<config, inputs, params, locals, trace, other_coordinates, other_loss>>

None == [op |-> "None"]

Slots(n) == 0 .. (n - 1)
Frames(t) == 0 .. (t - 1)

Min(a, b) == IF a < b THEN a ELSE b
Max(a, b) == IF a > b THEN a ELSE b

----------------------------------------------------------------------------
(* Floating-point scalars: exact rationals n/d (d > 0, lowest terms) and   *)
(* the values a division by zero produces.                                 *)

RECURSIVE Gcd(_, _)
Gcd(a, b) == IF b = 0 THEN a ELSE Gcd(b, a % b)

Abs(a) == IF a < 0 THEN 0 - a ELSE a

Fin(n, d) ==
    LET s == IF d < 0 THEN 0 - 1 ELSE 1
        g == Gcd(Abs(n), Abs(d))
    IN  [k |-> "fin", n |-> (s * n) \div g, d |-> (s * d) \div g]

NaN == [k |-> "nan", n |-> 0, d |-> 0]
Inf(s) == [k |-> "inf", n |-> s, d |-> 0]

FAdd(a, b) ==
    IF a.k = "nan" \/ b.k = "nan" THEN NaN
    ELSE IF a.k = "inf" /\ b.k = "inf" THEN (IF a.n = b.n THEN a ELSE NaN)
    ELSE IF a.k = "inf" THEN a
    ELSE IF b.k = "inf" THEN b
    ELSE Fin(a.n * b.d + b.n * a.d, a.d * b.d)

FMul(a, b) ==
    IF a.k = "nan" \/ b.k = "nan" THEN NaN
    ELSE IF a.k = "inf" \/ b.k = "inf"
         THEN (IF a.n = 0 \/ b.n = 0 THEN NaN
               ELSE Inf(IF (a.n > 0) = (b.n > 0) THEN 1 ELSE 0 - 1))
    ELSE Fin(a.n * b.n, a.d * b.d)

\* tf.div on float32 operands: no error is raised for a zero divisor.
FDiv(a, b) ==
    IF a.k = "nan" \/ b.k = "nan" THEN NaN
    ELSE IF a.k = "inf" /\ b.k = "inf" THEN NaN
    ELSE IF a.k = "inf" THEN (IF b.n < 0 THEN Inf(0 - a.n) ELSE a)
    ELSE IF b.k = "inf" THEN Fin(0, 1)
    ELSE IF b.n = 0
         THEN (IF a.n = 0 THEN NaN ELSE Inf(IF a.n > 0 THEN 1 ELSE 0 - 1))
    ELSE Fin(a.n * b.d, a.d * b.n)

\* tf.cast(x, tf.float32) of an integer
Cast(i) == Fin(i, 1)

RECURSIVE SumSeq(_)
SumSeq(s) == IF s = <<>> THEN Fin(0, 1) ELSE FAdd(Head(s), SumSeq(Tail(s)))

----------------------------------------------------------------------------
(* Tensors and slicing.                                                    *)

\* x[:, f] of a tensor of shape [max_num_ped, trajectory_size, 2]
Column(x, f) == [n \in DOMAIN x |-> x[n][f]]

\* m[:, :, f] of a tensor of shape [max_num_ped, max_num_ped, trajectory_size]
MaskAt(m, f) == [i \in DOMAIN m |-> [j \in DOMAIN m[i] |-> m[i][j][f]]]

\* tf.zeros(shape, tf.float32)
Zeros(shape) == [op |-> "zeros", shape |-> shape]

\* self.cell.zero_state(batch, tf.float32): the LSTMStateTuple (c, h)
ZeroState(batch) == [c |-> Zeros(<<batch, lstm_size>>), h |-> Zeros(<<batch, lstm_size>>)]

\* self.coordinates_layer(x): Dense + ReLU with the shared weights
CoordinatesLayer(x) == [op |-> "coordinates_layer", of |-> x]

\* Start index of the Python slice s[-p:] of a sequence of length len
NegStart(len, p) ==
    LET i == 0 - p
    IN  IF i < 0 THEN Max(len + i, 0) ELSE Min(i, len)

\* Stop index of the slice s[:q] of a dimension of size len
PosStop(len, q) == IF q < 0 THEN Max(len + q, 0) ELSE Min(q, len)

----------------------------------------------------------------------------
(* Names of the trainable variables, as sequences of characters.  A layer   *)
(* names its variables <layer name>/kernel:0 and <layer name>/bias:0,      *)
(* below the variable scope of its first call, if there is one.            *)

CoordinatesKernel == <<"C", "o", "o", "r", "d", "i", "n", "a", "t", "e", "s", "/", "L", "a", "y", "e", "r", "/", "k", "e", "r", "n", "e", "l", ":", "0">>
CoordinatesBias == <<"C", "o", "o", "r", "d", "i", "n", "a", "t", "e", "s", "/", "L", "a", "y", "e", "r", "/", "b", "i", "a", "s", ":", "0">>
CellKernel == <<"C", "e", "l", "l", "/", "k", "e", "r", "n", "e", "l", ":", "0">>
CellBias == <<"C", "e", "l", "l", "/", "b", "i", "a", "s", ":", "0">>
PositionKernel == <<"P", "o", "s", "i", "t", "i", "o", "n", "_", "e", "s", "t", "i", "m", "a", "t", "i", "o", "n", "/", "L", "a", "y", "e", "r", "/", "k", "e", "r", "n", "e", "l", ":", "0">>
PositionBias == <<"P", "o", "s", "i", "t", "i", "o", "n", "_", "e", "s", "t", "i", "m", "a", "t", "i", "o", "n", "/", "L", "a", "y", "e", "r", "/", "b", "i", "a", "s", ":", "0">>

\* The Python test  sub in s  on strings
Contains(sub, s) ==
    \E i \in 1 .. (Len(s) - Len(sub) + 1) : SubSeq(s, i, i + Len(sub) - 1) = sub

\* tf.trainable_variables() after the graph is built: kernel and bias of the
\* coordinates layer, of the LSTM cell and of the output layer.
TrainableVariables(kv, bv) ==
    << [name |-> CoordinatesKernel, kind |-> "kernel", value |-> kv],
       [name |-> CoordinatesBias, kind |-> "bias", value |-> bv],
       [name |-> CellKernel, kind |-> "kernel", value |-> kv],
       [name |-> CellBias, kind |-> "bias", value |-> bv],
       [name |-> PositionKernel, kind |-> "kernel", value |-> kv],
       [name |-> PositionBias, kind |-> "bias", value |-> bv] >>

----------------------------------------------------------------------------
(* The pluggable collaborators handed to the constructor.                  *)

\* helper(frame, previously predicted embedding, ground-truth embedding)
Helper(kind, f, prev, real) ==
    IF kind = "ground_truth" \/ prev = None THEN real ELSE prev

\* pooling_module(hidden states, mask of the frame); None: no pooling
Pooling(kind, hidden, mask) ==
    IF kind = "None" THEN None
    ELSE IF kind = "zeros" THEN Zeros(<<Cardinality(DOMAIN mask), 0>>)
    ELSE [op |-> "pooling", hidden |-> hidden, mask |-> mask]

\* Rows a sampling position estimator may return for n slots
SampledRows(n) ==
    {[s \in Slots(n) |-> c] : c \in {<<0, 0>>, <<1, 2>>}}
        \cup {[s \in Slots(n) |-> <<s + 1, s + 2>>]}

\* position_estimate(layered_output, real next coordinates, output_size,
\* coordinates_layer): the possible (new_coordinates, new_coordinates_processed)
PositionEstimate(kind, layered, real, size, n) ==
    IF kind = "verbatim"
    THEN {[coordinates |-> real, processed |-> CoordinatesLayer(real)]}
    ELSE {[coordinates |-> r, processed |-> CoordinatesLayer(r)] : r \in SampledRows(n)}

RECURSIVE SumTo(_, _)
\* f[0] + ... + f[m - 1]
SumTo(f, m) == IF m = 0 THEN 0 ELSE f[m - 1] + SumTo(f, m - 1)

Sq(a) == a * a

\* loss_function(slice): the slice is a sequence of rows, each a function on
\* the kept slots.  reduce_sum adds every component; squared_error adds the
\* squared distance of each entry to the real coordinate of the frame it
\* predicts (the rows are the last rows of the unroll).
LossFunction(kind, slice, real, t) ==
    LET rows == Len(slice)
        RowSum(i) ==
            LET row == slice[i]
                target == t - rows + i - 1
                term == [s \in DOMAIN row |->
                            IF kind = "squared_error"
                            THEN Sq(row[s][1] - real[s][target][1])
                                 + Sq(row[s][2] - real[s][target][2])
                            ELSE row[s][1] + row[s][2]]
            IN  SumTo(term, Cardinality(DOMAIN row))
    IN  Cast(SumTo([i \in 0 .. (rows - 1) |-> RowSum(i + 1)], rows))

----------------------------------------------------------------------------
(* trajectory_decoders.SocialDecoder                                       *)

\* decoder.initialize(...): the decoder keeps what it is given
DecoderInitialize(f, coords, predicted, states, all_coords, hidden, mask, all_mask) ==
    [frame |-> f, coordinates |-> coords, new_coordinates |-> predicted,
     cell_states |-> states, all_peds |-> all_coords,
     hidden_states |-> hidden, peds_mask |-> mask, all_peds_mask |-> all_mask]

\* decoder.step(): input selection, pooling, one step of the cell, projection
DecoderStep(d, helper_kind, pooling_kind) ==
    LET chosen == Helper(helper_kind, d.frame, d.new_coordinates, d.coordinates)
        pooled == Pooling(pooling_kind, d.hidden_states, d.peds_mask)
        call == [frame |-> d.frame, input |-> chosen, pooled |-> pooled,
                 state |-> d.cell_states]
        h == [op |-> "Cell.h", call |-> call]
    IN  [cell_output |-> h,
         cell_states |-> [c |-> [op |-> "Cell.c", call |-> call], h |-> h],
         layered_output |-> [op |-> "output_layer", of |-> h],
         helper_previous |-> d.new_coordinates]

----------------------------------------------------------------------------
(* SocialModel.__init__: the unroll.                                       *)

\* A loop that stops one frame early
InRangeShort(f) == f < trajectory_size - 2

\* for frame in range(trajectory_size - 1): whether index f is in the range
InRange(f) == f < trajectory_size - 1

\* decoder.initialize without the previously predicted embedding
InitializeArgumentsUnthreaded(f) ==
    DecoderInitialize(f, CoordinatesLayer(Column(input_data, f)), None,
                      cell_states, CoordinatesLayer(Column(all_peds, f)),
                      cell_output, MaskAt(peds_mask, f), MaskAt(all_peds_mask, f))

\* decoder.initialize with a fresh zero state at every frame
InitializeArgumentsZeroState(f) ==
    DecoderInitialize(f, CoordinatesLayer(Column(input_data, f)),
                      new_coordinates_processed, ZeroState(max_num_ped),
                      CoordinatesLayer(Column(all_peds, f)),
                      cell_output, MaskAt(peds_mask, f), MaskAt(all_peds_mask, f))

\* decoder.initialize with the two masks exchanged
InitializeArgumentsSwappedMasks(f) ==
    DecoderInitialize(f, CoordinatesLayer(Column(input_data, f)),
                      new_coordinates_processed, cell_states,
                      CoordinatesLayer(Column(all_peds, f)),
                      cell_output, MaskAt(all_peds_mask, f), MaskAt(peds_mask, f))

\* The arguments of decoder.initialize at frame f
InitializeArguments(f) ==
    DecoderInitialize(f,
                      CoordinatesLayer(Column(input_data, f)),
                      new_coordinates_processed,
                      cell_states,
                      CoordinatesLayer(Column(all_peds, f)),
                      cell_output,
                      MaskAt(peds_mask, f),
                      MaskAt(all_peds_mask, f))

\* position_estimate handed the coordinates of the current frame
RealCurrent(f) == Column(input_data, f)

\* The real coordinates handed to position_estimate at frame f
RealNext(f) == Column(input_data, f + 1)

\* Lines 116-134: embed the coordinates of the frame, initialize the decoder
Initialize ==
    /\ pc = "initialize"
    /\ coordinates_preprocessed' = CoordinatesLayer(Column(input_data, frame))
    /\ decoder' = InitializeArguments(frame)
    /\ trace' = Append(trace, [op |-> "initialize", frame |-> frame,
                               args |-> decoder'])
    /\ pc' = "step"
    /\ UNCHANGED <<config, inputs, params, frame, new_coordinates,
                   new_coordinates_processed, cell_output, cell_states,
                   layered_output, loss_input, loss,
                   other_coordinates, other_loss>>

\* Line 139: cell_output, self.cell_states, layered_output = decoder.step()
Step ==
    /\ pc = "step"
    /\ LET r == DecoderStep(decoder, helper, pooling_module)
       IN  /\ cell_output' = r.cell_output
           /\ cell_states' = r.cell_states
           /\ layered_output' = r.layered_output
           /\ trace' = Append(trace, [op |-> "step", frame |-> decoder.frame,
                                      ret |-> r])
    /\ pc' = "estimate"
    /\ UNCHANGED <<config, inputs, params, frame, new_coordinates,
                   new_coordinates_processed, coordinates_preprocessed,
                   decoder, loss_input, loss, other_coordinates, other_loss>>

\* Lines 142-150: estimate the position, append it, go to the next frame
Estimate ==
    /\ pc = "estimate"
    /\ \E r \in PositionEstimate(position_estimate, layered_output,
                                 RealNext(frame), output_size, max_num_ped) :
        /\ new_coordinates_processed' = r.processed
        /\ new_coordinates' = Append(new_coordinates, r.coordinates)
        /\ trace' = Append(trace, [op |-> "position_estimate", frame |-> frame,
                                   layered |-> layered_output,
                                   real |-> RealNext(frame), ret |-> r])
    /\ frame' = frame + 1
    /\ pc' = IF InRange(frame + 1) THEN "initialize" ELSE "loss"
    /\ UNCHANGED <<config, inputs, params, cell_output, cell_states,
                   coordinates_preprocessed, layered_output, decoder,
                   loss_input, loss, other_coordinates, other_loss>>

----------------------------------------------------------------------------
(* SocialModel.__init__: the loss.                                         *)

\* The slice without the truncation to the pedestrians of the frame
LossSliceAllSlots(stacked, pt, npf) ==
    SubSeq(stacked, NegStart(Len(stacked), pt) + 1, Len(stacked))

\* self.new_coordinates[-prediction_time:, : self.num_peds_frame]
LossSlice(stacked, pt, npf) ==
    LET rows == SubSeq(stacked, NegStart(Len(stacked), pt) + 1, Len(stacked))
    IN  [i \in 1 .. Len(rows) |->
            [s \in Slots(PosStop(Cardinality(DOMAIN rows[i]), npf)) |-> rows[i][s]]]

\* loss_function(slice) divided by the number of pedestrians of the frame
NormalizedLoss(stacked) ==
    FDiv(LossFunction(loss_function,
                      LossSlice(stacked, prediction_time, num_peds_frame),
                      input_data, trajectory_size),
         Cast(num_peds_frame))

\* tf.nn.l2_loss(v): sum(v ** 2) / 2
L2Loss(v) ==
    LET n == Len(v.value)
    IN  Fin(SumTo([i \in 0 .. (n - 1) |-> Sq(v.value[i + 1])], n), 2)

\* A filter that keeps every variable
RegularizedAll(v) == TRUE

\* if "bias" not in v.name
Regularized(v) == ~Contains(<<"b", "i", "a", "s">>, v.name)

RECURSIVE Filter(_)
\* [tf.nn.l2_loss(v) for v in tvars if "bias" not in v.name]
Filter(tv) ==
    IF tv = <<>> THEN <<>>
    ELSE IF Regularized(Head(tv)) THEN <<L2Loss(Head(tv))>> \o Filter(Tail(tv))
    ELSE Filter(Tail(tv))

\* tf.add_n([...]) * l2_norm
L2Regularization(tv, scale) == FMul(SumSeq(Filter(tv)), scale)

\* Arrays that agree with stacked on the slots below npf
PaddingVariants(stacked, npf, n) ==
    { stacked,
      [k \in DOMAIN stacked |->
          [s \in Slots(n) |-> IF s < npf THEN stacked[k][s] ELSE <<5, 7>>]],
      [k \in DOMAIN stacked |->
          [s \in Slots(n) |-> IF s < npf THEN stacked[k][s]
                              ELSE stacked[k][n - 1 - (s - npf)]]] }

\* Lines 153-159: stack the predictions, slice them, reduce and normalize
CalculateLoss ==
    /\ pc = "loss"
    /\ loss_input' = LossSlice(new_coordinates, prediction_time, num_peds_frame)
    /\ loss' = NormalizedLoss(new_coordinates)
    /\ \E alt \in PaddingVariants(new_coordinates, num_peds_frame, max_num_ped) :
        /\ other_coordinates' = alt
        /\ other_loss' = NormalizedLoss(alt)
    /\ pc' = "regularize"
    /\ UNCHANGED <<config, inputs, params, frame, new_coordinates,
                   new_coordinates_processed, cell_output, cell_states,
                   coordinates_preprocessed, layered_output, decoder, trace>>

\* Lines 162-167: add the weights regularization
Regularize ==
    /\ pc = "regularize"
    /\ loss' = FAdd(loss, L2Regularization(tvars, l2_norm))
    /\ other_loss' = FAdd(other_loss, L2Regularization(tvars, l2_norm))
    /\ pc' = "train"
    /\ UNCHANGED <<config, inputs, params, frame, new_coordinates,
                   new_coordinates_processed, cell_output, cell_states,
                   coordinates_preprocessed, layered_output, decoder,
                   loss_input, trace, other_coordinates>>

\* Gradients taken of the loss before the regularization is added
MinimizedEarly == "regularize"

\* The stage at which self.loss is the tensor handed to compute_gradients
Minimized == "train"

\* Lines 170-183: one run of self.trainOp, which applies the clipped
\* gradients of self.loss to the variables and increments global_step
TrainOp ==
    /\ pc = Minimized
    /\ tvars' = [i \in DOMAIN tvars |->
                    [tvars[i] EXCEPT !.value = [j \in DOMAIN @ |-> @[j] - 1]]]
    /\ global_step' = global_step + 1
    /\ pc' = "done"
    /\ UNCHANGED <<config, inputs, frame, new_coordinates,
                   new_coordinates_processed, cell_output, cell_states,
                   coordinates_preprocessed, layered_output, decoder,
                   loss_input, loss, trace, other_coordinates, other_loss>>

Next == Initialize \/ Step \/ Estimate \/ CalculateLoss \/ Regularize \/ TrainOp

----------------------------------------------------------------------------
(* Initial states: the state after the constructor's lines 50-111.         *)

\* Deterministic stubs and a sampling, self-feeding configuration
StubCollaborators ==
    [helper |-> "ground_truth", position_estimate |-> "verbatim",
     loss_function |-> "squared_error", pooling_module |-> "zeros"]
SamplingCollaborators ==
    [helper |-> "scheduled", position_estimate |-> "sampled",
     loss_function |-> "reduce_sum", pooling_module |-> "None"]

\* Coordinate tensors of shape [n, t, 2]
Ramp(n, t) == [s \in Slots(n) |-> [f \in Frames(t) |-> <<f, s>>]]
Flat(n, t) == [s \in Slots(n) |-> [f \in Frames(t) |-> <<1, 1>>]]
Skew(n, t) == [s \in Slots(n) |-> [f \in Frames(t) |-> <<s + 1, 2 * f>>]]

\* Mask tensors of shape [n, n, t]
Visible(n, t) ==
    [i \in Slots(n) |-> [j \in Slots(n) |-> [f \in Frames(t) |->
        IF i # j THEN 1 ELSE 0]]]
Flicker(n, t) ==
    [i \in Slots(n) |-> [j \in Slots(n) |-> [f \in Frames(t) |->
        (i + j + f) % 2]]]

Start(n, t, pt, npf, l2, c, data, mask, all, all_mask, tv) ==
    /\ max_num_ped = n
    /\ trajectory_size = t
    /\ prediction_time = pt
    /\ l2_norm = l2
    /\ helper = c.helper
    /\ position_estimate = c.position_estimate
    /\ loss_function = c.loss_function
    /\ pooling_module = c.pooling_module
    /\ input_data = data
    /\ peds_mask = mask
    /\ num_peds_frame = npf
    /\ all_peds = all
    /\ all_peds_mask = all_mask
    /\ tvars = tv
    /\ global_step = 0
    /\ pc = IF InRange(0) THEN "initialize" ELSE "loss"
    /\ frame = 0
    /\ new_coordinates = <<>>
    /\ new_coordinates_processed = None
    /\ cell_output = Zeros(<<n, lstm_size>>)
    /\ cell_states = ZeroState(n)
    /\ coordinates_preprocessed = None
    /\ layered_output = None
    /\ decoder = None
    /\ loss_input = None
    /\ loss = None
    /\ trace = <<>>
    /\ other_coordinates = None
    /\ other_loss = None

\* The unroll over every input of the families, with the default
\* prediction_time and l2_norm
Init ==
    \E n \in 1 .. MaxNumPed, t \in 2 .. MaxTraj :
    \E npf \in 1 .. n, c \in {StubCollaborators, SamplingCollaborators} :
    \E data \in {Ramp(n, t), Flat(n, t)}, all \in {Skew(n, t), Flat(n, t)} :
    \E mask \in {Visible(n, t), Flicker(n, t)} :
    \E all_mask \in {Visible(n, t), Flicker(n, t)} :
        Start(n, t, 8, npf, Fin(1, 1000), c, data, mask, all, all_mask,
              TrainableVariables(<<1, 2>>, <<3>>))

Spec == Init /\ [][Next]_vars

\* The loss over every prediction_time, num_peds_frame, l2_norm and weights
InitLoss ==
    \E n \in 1 .. MaxNumPed, t \in 2 .. MaxTraj :
    \E pt \in 0 .. t, npf \in 0 .. n :
    \E l2 \in {Fin(0, 1), Fin(1, 1000)} :
    \E c \in {StubCollaborators, SamplingCollaborators} :
    \E kv \in {<<1, 2>>, <<0, 1>>}, bv \in {<<3>>, <<0>>} :
        Start(n, t, pt, npf, l2, c, Ramp(n, t), Visible(n, t), Skew(n, t),
              Visible(n, t), TrainableVariables(kv, bv))

SpecLoss == InitLoss /\ [][Next]_vars

\* The end-to-end scenario: two slots, three frames, the stubs, no
\* regularization, every input_data over three coordinates
InitEndToEnd ==
    \E data \in [Slots(2) -> [Frames(3) -> {<<0, 0>>, <<1, 2>>, <<2, 1>>}]] :
    \E pt \in 0 .. 3, npf \in 1 .. 2 :
        Start(2, 3, pt, npf, Fin(0, 1), StubCollaborators, data,
              Visible(2, 3), data, Visible(2, 3),
              TrainableVariables(<<1, 2>>, <<3>>))

SpecEndToEnd == InitEndToEnd /\ [][Next]_vars

----------------------------------------------------------------------------
(* Properties.                                                             *)

InitializeEvents == SelectSeq(trace, LAMBDA e : e.op = "initialize")
StepEvents == SelectSeq(trace, LAMBDA e : e.op = "step")
EstimateEvents == SelectSeq(trace, LAMBDA e : e.op = "position_estimate")
AfterUnroll == pc \in {"loss", "regularize", "train", "done"}
AfterLoss == pc \in {"regularize", "train", "done"}
AfterRegularization == pc \in {"train", "done"}

\* C1: the predicted-coordinate sequence holds one row of max_num_ped slots
\* per completed step, the row at position k being the prediction returned by
\* position_estimate at frame k, and it holds exactly trajectory_size - 1
\* rows once the unroll loop has completed.
PredictionsInTimeOrder ==
    /\ Len(new_coordinates) = Len(EstimateEvents)
    /\ \A k \in 1 .. Len(new_coordinates) :
        /\ EstimateEvents[k].frame = k - 1
        /\ new_coordinates[k] = EstimateEvents[k].ret.coordinates
        /\ DOMAIN new_coordinates[k] = Slots(max_num_ped)
    /\ AfterUnroll => Len(new_coordinates) = trajectory_size - 1

PredictionsComplete ==
    /\ pc = "loss"
    /\ trajectory_size = 4
    /\ Len(new_coordinates) = 3
    /\ new_coordinates[1] # new_coordinates[2]
    /\ new_coordinates[2] # new_coordinates[3]

\* C2: decoder.initialize, and through it the helper, receives None as the
\* previously predicted embedding at frame 0 and only there; at every later
\* frame t it receives the embedding returned by position_estimate at frame
\* t - 1, which is not None.
PreviousPredictionThreaded ==
    /\ \A k \in 1 .. Len(InitializeEvents) :
        LET previous == InitializeEvents[k].args.new_coordinates
        IN  /\ InitializeEvents[k].frame = k - 1
            /\ (previous = None) <=> (k = 1)
            /\ k > 1 => previous = EstimateEvents[k - 1].ret.processed
    /\ \A k \in 1 .. Len(StepEvents) :
        StepEvents[k].ret.helper_previous
            = InitializeEvents[k].args.new_coordinates

PreviousPredictionFromLastStep ==
    /\ Len(InitializeEvents) = 3
    /\ EstimateEvents[1].ret.processed # EstimateEvents[2].ret.processed
    /\ InitializeEvents[3].args.new_coordinates = EstimateEvents[2].ret.processed
    /\ InitializeEvents[1].args.new_coordinates = None

\* C3: the frames 0, 1, ..., trajectory_size - 2 are processed once each in
\* increasing order (initialize, step, position_estimate per frame); the
\* step at frame 0 is handed all-zero state and hidden output for every
\* slot, and the step at frame t + 1 the state and the hidden output that
\* decoder.step() returned at frame t.
SequentialThreadedState ==
    /\ \A i \in 1 .. Len(trace) :
        /\ trace[i].frame = (i - 1) \div 3
        /\ trace[i].op = <<"initialize", "step", "position_estimate">>[((i - 1) % 3) + 1]
        /\ trace[i].frame \in 0 .. (trajectory_size - 2)
    /\ AfterUnroll => Len(trace) = 3 * (trajectory_size - 1)
    /\ \A k \in 1 .. Len(InitializeEvents) :
        LET args == InitializeEvents[k].args
        IN  IF k = 1
            THEN /\ args.cell_states.c = Zeros(<<max_num_ped, lstm_size>>)
                 /\ args.cell_states.h = Zeros(<<max_num_ped, lstm_size>>)
                 /\ args.hidden_states = Zeros(<<max_num_ped, lstm_size>>)
            ELSE /\ args.cell_states = StepEvents[k - 1].ret.cell_states
                 /\ args.hidden_states = StepEvents[k - 1].ret.cell_output

StateThreadedTwice ==
    /\ Len(InitializeEvents) = 3
    /\ Len(StepEvents) = 2
    /\ InitializeEvents[3].args.cell_states = StepEvents[2].ret.cell_states
    /\ StepEvents[2].ret.cell_states # StepEvents[1].ret.cell_states
    /\ InitializeEvents[1].args.cell_states = ZeroState(max_num_ped)

\* C4: the loss function is applied to exactly the last prediction_time rows
\* of the stacked predictions (steps trajectory_size - 1 - prediction_time
\* to trajectory_size - 2), restricted to the slots below num_peds_frame,
\* for every prediction_time in 0 .. trajectory_size - 1.
LossOnLastPredictionTimeRows ==
    (AfterLoss /\ prediction_time <= trajectory_size - 1) =>
        loss_input =
            [i \in 1 .. prediction_time |->
                [s \in Slots(num_peds_frame) |->
                    new_coordinates[trajectory_size - 1 - prediction_time + i][s]]]

\* C5: two evaluations that agree on num_peds_frame, on the parameters and
\* on every stacked value of the slots below num_peds_frame give the same
\* loss, whatever the values or the order of the other slots.
PaddingDoesNotChangeLoss ==
    (AfterLoss
        /\ \A k \in DOMAIN new_coordinates : \A s \in Slots(num_peds_frame) :
            other_coordinates[k][s] = new_coordinates[k][s])
    => other_loss = loss

PaddingDiffers ==
    /\ pc = "done"
    /\ other_coordinates # new_coordinates
    /\ num_peds_frame >= 1
    /\ loss.k = "fin"
    /\ loss.n # 0
    /\ other_loss = loss

\* C6: with num_peds_frame = 0 no loss value reaches the regularization sum
\* and the optimizer: the division fails or is guarded.
ZeroCountNeverYieldsLoss ==
    ~(num_peds_frame = 0 /\ AfterRegularization /\ loss # None)

\* C7: with two slots, three frames and the deterministic stubs, the stacked
\* predictions are input_data[:, 1:, :] transposed (row k, slot n is
\* input_data[n, k + 1]) and the final loss is zero.
EndToEndExact ==
    /\ AfterUnroll =>
        new_coordinates =
            [k \in 1 .. 2 |-> [n \in Slots(2) |-> input_data[n][k]]]
    /\ AfterRegularization => loss = Fin(0, 1)

EndToEndDone ==
    /\ pc = "done"
    /\ loss = Fin(0, 1)
    /\ new_coordinates[1] # new_coordinates[2]
    /\ new_coordinates[1][0] # new_coordinates[1][1]
    /\ Column(input_data, 0) # Column(input_data, 1)

RECURSIVE SquaredNorms(_, _)
\* The sum over the first m variables that are not bias terms of the sum of
\* the squared entries
SquaredNorms(tv, m) ==
    IF m = 0 THEN 0
    ELSE SquaredNorms(tv, m - 1)
         + (IF tv[m].kind = "bias" THEN 0
            ELSE SumTo([i \in 0 .. (Len(tv[m].value) - 1) |->
                           Sq(tv[m].value[i + 1])], Len(tv[m].value)))

PredictionLoss ==
    FDiv(LossFunction(loss_function, loss_input, input_data, trajectory_size),
         Cast(num_peds_frame))

\* C8 as stated: the final loss is the loss function's result divided by
\* num_peds_frame plus l2_norm times the sum of the squared norms of the
\* trainable tensors that are not bias terms.
FinalLossFullSquaredNorm ==
    pc = "train" =>
        loss = FAdd(PredictionLoss,
                    FMul(l2_norm, Cast(SquaredNorms(tvars, Len(tvars)))))

\* C8 as amended: the final loss is the loss function's result divided (in
\* floating point) by num_peds_frame plus l2_norm times the sum of HALF the
\* squared norm of every trainable tensor that is not a bias term; bias
\* tensors contribute nothing.
FinalLossHalfSquaredNorm ==
    pc = "train" =>
        loss = FAdd(PredictionLoss,
                    FMul(l2_norm, Fin(SquaredNorms(tvars, Len(tvars)), 2)))

FinalLossRegularized ==
    /\ pc = "train"
    /\ l2_norm # Fin(0, 1)
    /\ num_peds_frame >= 1
    /\ \E i \in DOMAIN tvars : tvars[i].kind = "bias" /\ tvars[i].value # <<0>>
    /\ loss # PredictionLoss
    /\ PredictionLoss # Fin(0, 1)

\* C9: at every frame t the decoder is given the embedded coordinates and
\* the masks of frame t, and position_estimate the real coordinates of frame
\* t + 1; frame 0 is never a target and the last frame never a decoder
\* input.
FramesAligned ==
    /\ \A k \in 1 .. Len(InitializeEvents) :
        LET t == k - 1
            args == InitializeEvents[k].args
        IN  /\ t \in 0 .. (trajectory_size - 2)
            /\ args.frame = t
            /\ args.coordinates
                 = CoordinatesLayer([n \in Slots(max_num_ped) |-> input_data[n][t]])
            /\ args.all_peds
                 = CoordinatesLayer([n \in Slots(max_num_ped) |-> all_peds[n][t]])
            /\ args.peds_mask
                 = [i \in Slots(max_num_ped) |->
                       [j \in Slots(max_num_ped) |-> peds_mask[i][j][t]]]
            /\ args.all_peds_mask
                 = [i \in Slots(max_num_ped) |->
                       [j \in Slots(max_num_ped) |-> all_peds_mask[i][j][t]]]
    /\ \A k \in 1 .. Len(EstimateEvents) :
        LET t == k - 1
        IN  /\ t + 1 \in 1 .. (trajectory_size - 1)
            /\ EstimateEvents[k].real
                 = [n \in Slots(max_num_ped) |-> input_data[n][t + 1]]

FramesDistinct ==
    /\ Len(EstimateEvents) = 3
    /\ EstimateEvents[1].real # EstimateEvents[2].real
    /\ InitializeEvents[1].args.peds_mask # InitializeEvents[2].args.peds_mask
    /\ InitializeEvents[2].args.peds_mask # InitializeEvents[2].args.all_peds_mask
    /\ InitializeEvents[3].args.coordinates # InitializeEvents[3].args.all_peds

\* C10: no step changes input_data, peds_mask, num_peds_frame, all_peds or
\* all_peds_mask; the trainable variables and global_step change only in the
\* run of trainOp, which happens after the whole unroll and with the final
\* (normalized and regularized) loss computed.
ForwardPassReadOnly ==
    [][/\ inputs' = inputs
       /\ params' # params =>
            /\ pc = "train" /\ pc' = "done"
            /\ Len(new_coordinates) = trajectory_size - 1
            /\ loss = FAdd(NormalizedLoss(new_coordinates),
                           L2Regularization(tvars, l2_norm))]_vars

ParametersUpdated ==
    /\ pc = "done"
    /\ global_step = 1
    /\ tvars # TrainableVariables(<<1, 2>>, <<3>>)
    /\ Len(new_coordinates) = trajectory_size - 1

====
